---- MODULE Spec2Model ----
(***************************************************************************)
(* Countdown scraper: reconciliation of a scraped product against the      *)
(* stored record (relational backend and Frappe backend) and the scrape    *)
(* loop that drives it.                                                    *)
(*                                                                         *)
(* Conventions                                                             *)
(*   - Time is an integer number of clock ticks; TicksPerDay ticks make a  *)
(*     calendar day.  The local timezone is taken to be UTC.               *)
(*   - Prices are integers in cents (the site shows two cent digits, and   *)
(*     a DECIMAL(10,2) column keeps two digits).                           *)
(*   - An in-memory date value is either a JS Date ([kind |-> "Date"]) or  *)
(*     the ISO string of an instant ([kind |-> "string"]), because the     *)
(*     code calls toString() and toISOString() on them and the two print   *)
(*     differently.  A string value is a record of its format and of the   *)
(*     instant or day it spells.                                           *)
(*   - The three "new Date()" calls that stamp one scraped product are     *)
(*     taken to fall on the same clock tick.                               *)
(*   - Product fields that no decision reads and every write copies        *)
(*     unchanged from the scraped product (size, sourceSite, unitPrice,    *)
(*     unitName, originalUnitQuantity) are not represented; the name      *)
(*     stands for them in the rows of the relational backend.              *)
(*   - A line of urls.txt is a sequence of atoms (see the section on       *)
(*     parseAndCategoriseURL).                                             *)
(***************************************************************************)
EXTENDS Integers, Sequences, FiniteSets, TLC

\* ------------------------------------------------------------------------
\* Bounds of the model
\* ------------------------------------------------------------------------
\* calendar days 0..MaxDay, each of TicksPerDay clock ticks
MaxDay == 1
TicksPerDay == 2
\* upserts issued in one behaviour
MaxOps == 2

\* ------------------------------------------------------------------------
\* Domains
\* ------------------------------------------------------------------------
Ids == {"11", "22"}

\* product names as _.startCase leaves them
Names == {"Milk"}

\* cents: 4.05, 4.10, 4.15
Prices == {405, 410, 415}

\* the hardcoded list of category tags the reconciliation accepts
validCategories == {"fresh"}

\* a category value: a JSON array of tags, or null
Tags(seq) == [isNull |-> FALSE, tags |-> seq]

NullCategory == [isNull |-> TRUE, tags |-> <<>>]

\* category lists a scrape target can carry (urls.txt is free text)
CategoryLists == {Tags(<<"fresh">>), Tags(<<"tubs">>)}

UpsertResponse == {"NewProduct", "PriceChanged", "InfoChanged", "AlreadyUpToDate", "Failed"}

\* store : the products table, a function from the ids that have a row to the row
\* now   : the clock
\* ops   : number of upserts issued so far
\* last  : the latest upsert: its input, the row it found, what it returned
VARIABLES store, now, ops, last

\* backend            : the storage backend the run is wired to
\* dryRunMode         : the dry-run-mode argument was given
\* phase              : where the promise chain of the scrape loop stands
\* pagesScrapedCount  : 1-based number of the page being (or next to be) scraped
\* pageLoadValid      : the current page loaded and showed its listings
\* pending            : listing tasks of the current page not yet finished
\* counts             : the five logging counters of the current page
\* rejectedBy         : what rejected the promise chain, if anything
\* browserOpen        : the playwright browser has not been closed
\* numTargets         : categorisedUrls.length once the arguments are handled
\* visits             : log of the targets navigated to, in the order of navigation
\* logged             : product rows logged by the dry-run branch
VARIABLES backend, dryRunMode, phase, pagesScrapedCount, pageLoadValid, pending, counts,
          rejectedBy, browserOpen, numTargets, visits, logged

loopVars == <<dryRunMode, phase, pagesScrapedCount, pageLoadValid, pending, counts,
              rejectedBy, browserOpen, numTargets, visits, logged>>

\* line    : a line of urls.txt
\* parsed  : what parseAndCategoriseURL returned for it, once it has been called
VARIABLES line, parsed

parseVars == <<line, parsed>>

\* tasks   : the listing tasks of one page, each with its position in the
\*           upsert it awaits
\* store0  : the table when the tasks of the page were created
\* summary : the counters as the page summary logged them, once it is logged
VARIABLES tasks, store0, summary

taskVars == <<tasks, store0, summary>>

vars == <<store, now, ops, last, backend, loopVars, parseVars, taskVars>>

\* ------------------------------------------------------------------------
\* Dates and their string forms
\* ------------------------------------------------------------------------
Day(t) == t \div TicksPerDay

LastTick == (MaxDay + 1) * TicksPerDay - 1

DateOf(t) == [kind |-> "Date", t |-> t]

\* Date.prototype.toISOString(): "2026-11-04T10:23:45.123Z"
toISOString(d) == [fmt |-> "YYYY-MM-DDTHH:mm:ss.sssZ", t |-> d.t]

\* Date.prototype.toString(): "Wed Nov 04 2026 10:23:45 GMT+0000 (...)";
\* String.prototype.toString(): the string itself
toString(v) == IF v.kind = "Date"
               THEN [fmt |-> "Www Mmm DD YYYY HH:mm:ss", t |-> v.t]
               ELSE [fmt |-> "YYYY-MM-DDTHH:mm:ss.sssZ", t |-> v.t]

\* s.slice(0, 10): the first ten characters
slice10(s) == IF s.fmt = "YYYY-MM-DDTHH:mm:ss.sssZ"
              THEN [fmt |-> "YYYY-MM-DD", day |-> Day(s.t)]
              ELSE [fmt |-> "Www Mmm DD", day |-> Day(s.t)]

\* a Date bound to a DATE column keeps its calendar day only
DateColumn(d) == Day(d.t)

\* a DATE column read back by the driver: a Date at midnight of that day
DateFromColumn(day) == DateOf(day * TicksPerDay)

\* JSON.stringify of a date inside priceHistory: a Date becomes its ISO string
JsonDate(v) == [kind |-> "string", t |-> v.t]

JsonHistory(h) == [i \in DOMAIN h |-> [date |-> JsonDate(h[i].date), price |-> h[i].price]]

\* ------------------------------------------------------------------------
\* Price comparison: Math.abs(a - b) > 0.05 on IEEE-754 doubles
\* ------------------------------------------------------------------------
\* lower prices lo (cents, 395..430) for which the double subtraction
\* (lo + 5)/100 - lo/100 comes out above the double 0.05
RoundsAboveFiveCents == {398, 402, 406, 410, 414, 418, 427}

Abs(x) == IF x < 0 THEN -x ELSE x

Min(a, b) == IF a < b THEN a ELSE b

\* variant: the threshold typed as 0.5
priceDifferenceExceeds_HalfDollar(dbPrice, scrapedPrice) ==
    Abs(dbPrice - scrapedPrice) > 50

priceDifferenceExceeds(dbPrice, scrapedPrice) ==
    \/ Abs(dbPrice - scrapedPrice) > 5
    \/ /\ Abs(dbPrice - scrapedPrice) = 5
       /\ Min(dbPrice, scrapedPrice) \in RoundsAboveFiveCents

\* ------------------------------------------------------------------------
\* The scraped product (index.ts playwrightElementToProduct)
\* ------------------------------------------------------------------------
\* variant: the dated price is built before currentPrice is assigned
playwrightElementToProduct_StalePrice(id, name, price, categories, t) ==
    [id |-> id,
     name |-> name,
     category |-> categories,
     lastChecked |-> DateOf(t),
     lastUpdated |-> DateOf(t),
     currentPrice |-> price,
     priceHistory |-> <<[date |-> DateOf(t), price |-> 0]>>]

playwrightElementToProduct(id, name, price, categories, t) ==
    [id |-> id,
     name |-> name,
     category |-> categories,
     lastChecked |-> DateOf(t),
     lastUpdated |-> DateOf(t),
     currentPrice |-> price,
     priceHistory |-> <<[date |-> DateOf(t), price |-> price]>>]

\* ------------------------------------------------------------------------
\* Reconciliation (buildUpdatedProduct)
\* ------------------------------------------------------------------------
categoriesAllValid(category) == \A i \in DOMAIN category.tags : category.tags[i] \in validCategories

\* variant: the two conditions joined by || instead of &&
priceChangeDetected_Or(scrapedProduct, dbProduct) ==
    LET dbDay == slice10(toString(dbProduct.lastUpdated))
        scrapedDay == slice10(toISOString(scrapedProduct.lastUpdated))
    IN \/ priceDifferenceExceeds(dbProduct.currentPrice, scrapedProduct.currentPrice)
       \/ dbDay # scrapedDay

\* priceDifference > 0.05 && dbDay !== scrapedDay
priceChangeDetected(scrapedProduct, dbProduct) ==
    LET dbDay == slice10(toString(dbProduct.lastUpdated))
        scrapedDay == slice10(toISOString(scrapedProduct.lastUpdated))
    IN /\ priceDifferenceExceeds(dbProduct.currentPrice, scrapedProduct.currentPrice)
       /\ dbDay # scrapedDay

\* variant: a price change persists the scraped single-entry history
buildUpdatedProduct_NoAppend(scrapedProduct, dbProduct) ==
    IF priceChangeDetected(scrapedProduct, dbProduct)
       THEN [threw |-> FALSE, upsertType |-> "PriceChanged", product |-> scrapedProduct]
       ELSE IF dbProduct.category.isNull
       THEN [threw |-> TRUE]
       ELSE IF ~categoriesAllValid(dbProduct.category)
       THEN [threw |-> FALSE,
             upsertType |-> "InfoChanged",
             product |-> [scrapedProduct EXCEPT
                 !.priceHistory = dbProduct.priceHistory,
                 !.lastUpdated = dbProduct.lastUpdated]]
       ELSE [threw |-> FALSE,
             upsertType |-> "AlreadyUpToDate",
             product |-> [dbProduct EXCEPT !.lastChecked = scrapedProduct.lastChecked]]

\* variant: the last branch returns the scraped product
buildUpdatedProduct_UpToDateScraped(scrapedProduct, dbProduct) ==
    IF priceChangeDetected(scrapedProduct, dbProduct)
       THEN [threw |-> FALSE,
             upsertType |-> "PriceChanged",
             product |-> [scrapedProduct EXCEPT
                 !.priceHistory = Append(dbProduct.priceHistory, scrapedProduct.priceHistory[1])]]
       ELSE IF dbProduct.category.isNull
       THEN [threw |-> TRUE]
       ELSE IF ~categoriesAllValid(dbProduct.category)
       THEN [threw |-> FALSE,
             upsertType |-> "InfoChanged",
             product |-> [scrapedProduct EXCEPT
                 !.priceHistory = dbProduct.priceHistory,
                 !.lastUpdated = dbProduct.lastUpdated]]
       ELSE [threw |-> FALSE, upsertType |-> "AlreadyUpToDate", product |-> scrapedProduct]

\* variant: the category rule is evaluated before the price rule
buildUpdatedProduct_CategoryFirst(scrapedProduct, dbProduct) ==
    IF dbProduct.category.isNull
       THEN [threw |-> TRUE]
       ELSE IF ~categoriesAllValid(dbProduct.category)
       THEN [threw |-> FALSE,
             upsertType |-> "InfoChanged",
             product |-> [scrapedProduct EXCEPT
                 !.priceHistory = dbProduct.priceHistory,
                 !.lastUpdated = dbProduct.lastUpdated]]
       ELSE IF priceChangeDetected(scrapedProduct, dbProduct)
       THEN [threw |-> FALSE,
             upsertType |-> "PriceChanged",
             product |-> [scrapedProduct EXCEPT
                 !.priceHistory = Append(dbProduct.priceHistory, scrapedProduct.priceHistory[1])]]
       ELSE [threw |-> FALSE,
             upsertType |-> "AlreadyUpToDate",
             product |-> [dbProduct EXCEPT !.lastChecked = scrapedProduct.lastChecked]]

\* result: [threw |-> TRUE] or [threw |-> FALSE, upsertType, product]
buildUpdatedProduct(scrapedProduct, dbProduct) ==
    IF priceChangeDetected(scrapedProduct, dbProduct)
       THEN [threw |-> FALSE,
             upsertType |-> "PriceChanged",
             product |-> [scrapedProduct EXCEPT
                 !.priceHistory = Append(dbProduct.priceHistory, scrapedProduct.priceHistory[1])]]
       ELSE IF dbProduct.category.isNull
       THEN [threw |-> TRUE]   \* null.every(...) is a TypeError
       ELSE IF ~categoriesAllValid(dbProduct.category)
       THEN [threw |-> FALSE,
             upsertType |-> "InfoChanged",
             product |-> [scrapedProduct EXCEPT
                 !.priceHistory = dbProduct.priceHistory,
                 !.lastUpdated = dbProduct.lastUpdated]]
       ELSE [threw |-> FALSE,
             upsertType |-> "AlreadyUpToDate",
             product |-> [dbProduct EXCEPT !.lastChecked = scrapedProduct.lastChecked]]

\* ------------------------------------------------------------------------
\* Relational backend (upsertProductToMySQL)
\* ------------------------------------------------------------------------
\* outcomes of the two connection.execute calls of one upsert
MySQLOutcomes == {"ok", "selectFails", "writeFails"}

\* rows[0] as the driver returns it: DATE columns as Date objects at
\* midnight, JSON columns parsed
rowAsProduct(id, row) ==
    [id |-> id,
     name |-> row.name,
     category |-> row.category,
     lastChecked |-> DateFromColumn(row.lastChecked),
     lastUpdated |-> DateFromColumn(row.lastUpdated),
     currentPrice |-> row.currentPrice,
     priceHistory |-> row.priceHistory]

\* variant: the UPDATE does not assign the category column
updateRow_NoCategory(row, product) ==
    [row EXCEPT !.name = product.name,
                !.currentPrice = product.currentPrice,
                !.priceHistory = JsonHistory(product.priceHistory),
                !.lastUpdated = DateColumn(product.lastUpdated)]

\* UPDATE products SET name, category, ..., currentPrice, priceHistory,
\* lastUpdated WHERE id (lastChecked is not among the assigned columns); it
\* is executed whatever the decision
updateRow(row, product) ==
    [row EXCEPT !.name = product.name,
                !.category = product.category,
                !.currentPrice = product.currentPrice,
                !.priceHistory = JsonHistory(product.priceHistory),
                !.lastUpdated = DateColumn(product.lastUpdated)]

\* INSERT INTO products (...) VALUES (...)
insertRow(product) ==
    [name |-> product.name,
     category |-> product.category,
     currentPrice |-> product.currentPrice,
     priceHistory |-> JsonHistory(product.priceHistory),
     lastUpdated |-> DateColumn(product.lastUpdated),
     lastChecked |-> DateColumn(product.lastChecked)]

WithRow(st, id, row) == [x \in DOMAIN st \cup {id} |-> IF x = id THEN row ELSE st[x]]

\* result: the returned UpsertResponse and the table afterwards
upsertProductToMySQL(scrapedProduct, st, io) ==
    LET id == scrapedProduct.id
        failed == [response |-> "Failed", store |-> st]
    IN IF io = "selectFails" THEN failed
       ELSE IF id \in DOMAIN st
       THEN LET response == buildUpdatedProduct(scrapedProduct, rowAsProduct(id, st[id]))
            IN IF response.threw \/ io = "writeFails" THEN failed
               ELSE [response |-> response.upsertType,
                     store |-> WithRow(st, id, updateRow(st[id], response.product))]
       ELSE IF io = "writeFails" THEN failed
       ELSE [response |-> "NewProduct",
             store |-> WithRow(st, id, insertRow(scrapedProduct))]

\* ------------------------------------------------------------------------
\* Frappe backend (upsertProductToFrappe)
\* ------------------------------------------------------------------------
\* outcomes of the axios calls of one upsert: all answered, or the GET, the
\* PUT or the POST failing with an error other than 404
FrappeOutcomes == {"ok", "getFails", "putFails", "postFails"}

\* the request body of PUT and POST: the scraped product, dates as the ISO
\* strings JSON.stringify gives them (kept as the instant they spell)
frappeDocument(product) ==
    [category |-> product.category,
     currentPrice |-> product.currentPrice,
     priceHistory |-> JsonHistory(product.priceHistory),
     lastUpdated |-> JsonDate(product.lastUpdated).t,
     lastChecked |-> JsonDate(product.lastChecked).t]

\* result: the returned value and the documents afterwards; "rejected" is a
\* rejected promise (the POST inside the catch block threw)
upsertProductToFrappe(scrapedProduct, st, io) ==
    LET id == scrapedProduct.id
    IN IF io = "getFails" THEN [response |-> "Failed", store |-> st]
       ELSE IF id \in DOMAIN st
       THEN IF io = "putFails" THEN [response |-> "Failed", store |-> st]
            ELSE [response |-> "Updated",
                  store |-> WithRow(st, id, frappeDocument(scrapedProduct))]
       ELSE IF io = "postFails" THEN [response |-> "rejected", store |-> st]
       ELSE [response |-> "NewProduct",
             store |-> WithRow(st, id, frappeDocument(scrapedProduct))]

\* ------------------------------------------------------------------------
\* State machine: a sequence of upserts through one backend
\* ------------------------------------------------------------------------
NoScrape == playwrightElementToProduct("11", "Milk", 405, Tags(<<>>), 0)

\* the row an upsert found, as a sequence of zero or one rows
Found(st, id) == IF id \in DOMAIN st THEN <<st[id]>> ELSE <<>>

Record(scraped, st, response, io) ==
    [kind |-> "upsert",
     backend |-> backend,
     scraped |-> scraped,
     before |-> Found(st, scraped.id),
     response |-> response,
     io |-> io,
     repeated |-> /\ last.kind = "upsert"
                  /\ last.scraped = scraped
                  /\ last.response \in UpsertResponse \ {"Failed"}]

NoCounts == [NewProduct |-> 0, PriceChanged |-> 0, InfoChanged |-> 0,
             AlreadyUpToDate |-> 0, Failed |-> 0]

InitStore ==
    /\ store = <<>>
    /\ now = 0
    /\ ops = 0
    /\ last = [kind |-> "none", backend |-> "none", scraped |-> NoScrape, before |-> <<>>,
               response |-> "Failed", io |-> "ok", repeated |-> FALSE]

InitLoop ==
    /\ phase = "ready"
    /\ pagesScrapedCount = 1
    /\ pageLoadValid = FALSE
    /\ pending = 0
    /\ counts = NoCounts
    /\ rejectedBy = "none"
    /\ browserOpen = TRUE
    /\ visits = <<>>
    /\ logged = 0

\* no line of urls.txt is under study
NoLine ==
    /\ line = <<>>
    /\ parsed = <<>>

\* no page is followed task by task
NoTasks ==
    /\ tasks = <<>>
    /\ store0 = <<>>
    /\ summary = <<>>

Init ==
    /\ InitStore
    /\ InitLoop
    /\ backend = "mysql"
    /\ dryRunMode = FALSE
    /\ numTargets = 0
    /\ NoLine
    /\ NoTasks

\* the clock advances
Tick ==
    /\ now < LastTick
    /\ now' = now + 1
    /\ UNCHANGED <<store, ops, last, backend, loopVars, parseVars, taskVars>>

\* one listing is scraped now and upserted through the relational backend
UpsertMySQL ==
    /\ backend = "mysql"
    /\ ops < MaxOps
    /\ \E id \in Ids, name \in Names, price \in Prices, categories \in CategoryLists,
          io \in MySQLOutcomes :
          LET scraped == playwrightElementToProduct(id, name, price, categories, now)
              result == upsertProductToMySQL(scraped, store, io)
          IN /\ store' = result.store
             /\ last' = Record(scraped, store, result.response, io)
    /\ ops' = ops + 1
    /\ UNCHANGED <<now, backend, loopVars, parseVars, taskVars>>

Next == Tick \/ UpsertMySQL

Spec == Init /\ [][Next]_vars

\* the row the INSERT writes for a product that carries no categories
\* (scrapedProduct.category ? JSON.stringify(...) : null), first seen at the
\* start of the first day
LegacyRow == insertRow(playwrightElementToProduct("11", "Milk", 405, NullCategory, 0))

\* the relational backend with such a row already in the table
InitLegacy ==
    /\ store = [id \in {"11"} |-> LegacyRow]
    /\ now = 0
    /\ ops = 0
    /\ last = [kind |-> "none", backend |-> "none", scraped |-> NoScrape, before |-> <<>>,
               response |-> "Failed", io |-> "ok", repeated |-> FALSE]
    /\ InitLoop
    /\ backend = "mysql"
    /\ dryRunMode = FALSE
    /\ numTargets = 0
    /\ NoLine
    /\ NoTasks

SpecLegacy == InitLegacy /\ [][Next]_vars

InitFrappe ==
    /\ InitStore
    /\ InitLoop
    /\ backend = "frappe"
    /\ dryRunMode = FALSE
    /\ numTargets = 0
    /\ NoLine
    /\ NoTasks

\* one listing is scraped now and upserted through the Frappe backend
UpsertFrappe ==
    /\ backend = "frappe"
    /\ ops < MaxOps
    /\ \E id \in Ids, name \in Names, price \in Prices, categories \in CategoryLists,
          io \in FrappeOutcomes :
          LET scraped == playwrightElementToProduct(id, name, price, categories, now)
              result == upsertProductToFrappe(scraped, store, io)
          IN /\ store' = result.store
             /\ last' = Record(scraped, store, result.response, io)
    /\ ops' = ops + 1
    /\ UNCHANGED <<now, backend, loopVars, parseVars, taskVars>>

NextFrappe == Tick \/ UpsertFrappe

SpecFrappe == InitFrappe /\ [][NextFrappe]_vars

\* ------------------------------------------------------------------------
\* The scrape loop (index.ts): one promise chain, one link per target
\* ------------------------------------------------------------------------
\* number of targets in categorisedUrls, and the most listings one page shows
MaxTargets == 2
MaxListings == 2

\* clock ticks of the delay between two pages
DelayTicks == 1

\* the categories of the i-th target
TargetCategories(i) == IF i % 2 = 1 THEN Tags(<<"fresh">>) ELSE Tags(<<"tubs">>)

\* what a listing can show.  The id is the digits of the id attribute of the
\* h3 tag, or undefined when the tag has no such attribute; the name is the
\* text of the tag; the price is Number(dollars + "." + cents), NaN when the
\* digits are missing.
Undefined == "<undefined>"

NaN == 0 - 1

Listing(id, name, price) == [id |-> id, name |-> name, price |-> price]

LongName ==
    "A Product Name That Keeps Going Well Past The Limit Of One Hundred Characters Which Validation Enforces"

\* well-formed listings (one product shown at 4.05 or 4.15, another at 4.05),
\* and listings with one defect each: no id, an id too short or too long, a
\* name too short or too long, a price of 0.00, of 999.01, or unreadable
Listings ==
    {Listing("11", "Milk", 405), Listing("11", "Milk", 415), Listing("22", "Milk", 405)}
    \cup {Listing(id, "Milk", 405) : id \in {Undefined, "", "1", "123456789012345678901"}}
    \cup {Listing("11", name, 405) : name \in {"", "Tea", LongName}}
    \cup {Listing("11", "Milk", price) : price \in {0, 99901, NaN}}

\* variant: names of three characters are let through
validateProduct_ShortNames(product) ==
    IF Len(product.name) < 3 \/ Len(product.name) > 100 THEN FALSE
    ELSE IF product.id = Undefined THEN FALSE
    ELSE IF Len(product.id) < 2 \/ Len(product.id) > 20 THEN FALSE
    ELSE ~ \/ (product.currentPrice # NaN /\ product.currentPrice <= 0)
           \/ product.currentPrice = NaN
           \/ (product.currentPrice # NaN /\ product.currentPrice > 99900)

\* reading .length of an undefined id throws a TypeError, which the catch
\* turns into false; comparisons with NaN are false, Number.isNaN is true
validateProduct(product) ==
    IF Len(product.name) < 4 \/ Len(product.name) > 100 THEN FALSE
    ELSE IF product.id = Undefined THEN FALSE
    ELSE IF Len(product.id) < 2 \/ Len(product.id) > 20 THEN FALSE
    ELSE ~ \/ (product.currentPrice # NaN /\ product.currentPrice <= 0)
           \/ product.currentPrice = NaN
           \/ (product.currentPrice # NaN /\ product.currentPrice > 99900)

\* outcomes of the image upload of one product: the function returned, or threw
ImageOutcomes == {"returned", "threw"}

IoOutcomes == IF backend = "mysql" THEN MySQLOutcomes ELSE FrappeOutcomes

upsertProduct(scrapedProduct, st, io) ==
    IF backend = "mysql" THEN upsertProductToMySQL(scrapedProduct, st, io)
    ELSE upsertProductToFrappe(scrapedProduct, st, io)

\* variant of the switch: the counter is set from a value read before the
\* other tasks counted
Counted_Overwrites(c, response) ==
    IF response \in {"AlreadyUpToDate", "InfoChanged", "NewProduct", "PriceChanged"}
    THEN [c EXCEPT ![response] = 1]
    ELSE [c EXCEPT !.Failed = 1]

\* the switch on the response: anything that is not one of the four
\* successful decisions counts as failed
Counted(c, response) ==
    IF response \in {"AlreadyUpToDate", "InfoChanged", "NewProduct", "PriceChanged"}
    THEN [c EXCEPT ![response] = @ + 1]
    ELSE [c EXCEPT !.Failed = @ + 1]

\* if (pageLoadValid) { ... allProductEntries.map(...) }: the listing tasks
\* created for a page; variant: the tasks are created whether or not the
\* page loaded
listingTasks_NoGuard(loaded, entries) == entries

listingTasks(loaded, entries) == IF loaded THEN entries ELSE 0

\* the two branches of a listing task; valid stands for product !== undefined.
\* variant: the upsert branch does not test dryRunMode
upsertsProduct_IgnoresDryRun(dry, valid) == valid

upsertsProduct(dry, valid) == ~dry /\ valid

logsProductRow(dry, valid) == dry /\ valid

\* pagesScrapedCount++ === categorisedUrls.length, the test that the link
\* of the last target makes; variant: the counter is incremented first
allScrapesCompleted_PreIncrement(count, n) == count + 1 = n

allScrapesCompleted(count, n) == count = n

\* what follows the summary of a page: the browser is closed, or the delay
\* timer is started; variant: no timer, the next link runs at once
phaseAfterPage_NoDelay(completed) == IF completed THEN "completed" ELSE "ready"

phaseAfterPage(completed) == IF completed THEN "completed" ELSE "delaying"

\* an entry of the visit log: the target, whether its page loaded, the upserts
\* invoked for it, and the clock when it was navigated to and when its
\* processing finished (NotYet while it is being processed)
NotYet == 0 - 1

Visit(target, loaded, t) ==
    [target |-> target, loaded |-> loaded, upserts |-> 0, startedAt |-> t,
     finishedAt |-> NotYet]

\* the log with one more upsert for the target being processed
Upserted(log) == [log EXCEPT ![Len(log)].upserts = @ + 1]

\* the log with the target being processed finished at t
Finished(log, t) == [log EXCEPT ![Len(log)].finishedAt = t]

InitRun ==
    /\ InitStore
    /\ InitLoop
    /\ backend \in {"mysql", "frappe"}
    /\ dryRunMode \in BOOLEAN
    /\ numTargets \in 0..MaxTargets
    /\ NoLine
    /\ NoTasks

\* a link of the chain starts: page.goto and waitForSelector, then the
\* counters are zeroed and the listings of the page are mapped to tasks.
\* The i-th link is the one that runs when pagesScrapedCount = i.
LoadPage ==
    /\ phase = "ready"
    /\ pagesScrapedCount <= numTargets
    /\ \E loaded \in BOOLEAN, entries \in 0..MaxListings :
          /\ pageLoadValid' = loaded
          /\ pending' = listingTasks(loaded, entries)
          /\ visits' = Append(visits, Visit(pagesScrapedCount, loaded, now))
    /\ counts' = NoCounts
    /\ phase' = "listings"
    /\ UNCHANGED <<store, now, ops, last, backend, dryRunMode, pagesScrapedCount,
                   rejectedBy, browserOpen, numTargets, logged, parseVars, taskVars>>

\* one listing task runs: build and validate the product, then (unless dry
\* run) upsert it, count the response and upload its image
ProcessListing ==
    /\ phase = "listings"
    /\ pending > 0
    /\ \E listing \in Listings :
          LET product == playwrightElementToProduct(listing.id, listing.name, listing.price,
                             TargetCategories(pagesScrapedCount), now)
              valid == validateProduct(product)
          IN IF upsertsProduct(dryRunMode, valid)
             THEN \E io \in IoOutcomes, image \in ImageOutcomes :
                  LET result == upsertProduct(product, store, io)
                  IN /\ store' = result.store
                     /\ ops' = ops + 1
                     /\ last' = Record(product, store, result.response, io)
                     /\ visits' = Upserted(visits)
                     /\ UNCHANGED logged
                     /\ IF result.response = "rejected"
                        THEN /\ rejectedBy' = "upsert"
                             /\ phase' = "rejected"
                             /\ UNCHANGED <<counts, pending>>
                        ELSE /\ counts' = Counted(counts, result.response)
                             /\ IF image = "threw"
                                THEN /\ rejectedBy' = "image"
                                     /\ phase' = "rejected"
                                     /\ UNCHANGED pending
                                ELSE /\ pending' = pending - 1
                                     /\ UNCHANGED <<rejectedBy, phase>>
             ELSE /\ pending' = pending - 1
                  /\ logged' = IF logsProductRow(dryRunMode, valid) THEN logged + 1
                               ELSE logged
                  /\ UNCHANGED <<store, ops, last, counts, rejectedBy, phase, visits>>
    /\ UNCHANGED <<now, backend, dryRunMode, pagesScrapedCount, pageLoadValid, browserOpen,
                   numTargets, parseVars, taskVars>>

\* Promise.all resolved: the page summary is logged, then either the browser
\* is closed (last target) or the delay timer is started
FinishPage ==
    /\ phase = "listings"
    /\ pending = 0
    /\ LET completed == allScrapesCompleted(pagesScrapedCount, numTargets)
       IN /\ browserOpen' = IF completed THEN FALSE ELSE browserOpen
          /\ phase' = phaseAfterPage(completed)
    /\ pagesScrapedCount' = pagesScrapedCount + 1
    /\ visits' = Finished(visits, now)
    /\ UNCHANGED <<store, now, ops, last, backend, dryRunMode, pageLoadValid, pending,
                   counts, rejectedBy, numTargets, logged, parseVars, taskVars>>

\* the delay timer fires and the next link of the chain may start
Delay ==
    /\ phase = "delaying"
    /\ now' = now + DelayTicks
    /\ phase' = "ready"
    /\ UNCHANGED <<store, ops, last, backend, dryRunMode, pagesScrapedCount, pageLoadValid,
                   pending, counts, rejectedBy, browserOpen, numTargets, visits, logged,
                   parseVars, taskVars>>

NextRun == LoadPage \/ ProcessListing \/ FinishPage \/ Delay

SpecRun == InitRun /\ [][NextRun]_vars

\* ------------------------------------------------------------------------
\* Lines of urls.txt (index.ts parseAndCategoriseURL)
\*
\* A text is a sequence of atoms, each atom a run of characters that the
\* function never looks into: the separators it searches for (" ", "?", "/",
\* ",") are atoms of their own, and so are "countdown.co.nz" and
\* "categories=".  The string methods it calls are operators on such
\* sequences.
\* ------------------------------------------------------------------------
Site == "countdown.co.nz"

\* '?page=1&size=48&inStockProductsOnly=true'
FixedQuery == <<"?", "page=1&size=48&inStockProductsOnly=true">>

\* text.includes(sub)
includes(text, sub) ==
    \E i \in 1..(Len(text) - Len(sub) + 1) : SubSeq(text, i, i + Len(sub) - 1) = sub

\* text.startsWith('http')
startsWithHttp(text) == Len(text) >= 1 /\ text[1] \in {"http:", "https:"}

\* text.startsWith(sub)
startsWith(text, sub) == Len(text) >= Len(sub) /\ SubSeq(text, 1, Len(sub)) = sub

\* text.indexOf(sub), 1-based; 0 when sub does not occur
indexOf(text, sub) ==
    IF includes(text, sub)
    THEN CHOOSE i \in 1..Len(text) :
            /\ SubSeq(text, i, i + Len(sub) - 1) = sub
            /\ \A j \in 1..(i - 1) : SubSeq(text, j, j + Len(sub) - 1) # sub
    ELSE 0

\* text.replace(sub, ''): the first occurrence is removed
removeFirst(text, sub) ==
    IF includes(text, sub)
    THEN SubSeq(text, 1, indexOf(text, sub) - 1)
         \o SubSeq(text, indexOf(text, sub) + Len(sub), Len(text))
    ELSE text

\* text.split(sep), for separators whose occurrences cannot overlap
split(text, sep) ==
    LET at == {i \in 1..Len(text) : SubSeq(text, i, i + Len(sep) - 1) = sep}
        n == Cardinality(at)
        \* start of the k-th occurrence; the ends of the text for k = 0, n + 1
        occurrence(k) ==
            IF k = 0 THEN 1 - Len(sep)
            ELSE IF k = n + 1 THEN Len(text) + 1
            ELSE CHOOSE i \in at : Cardinality({j \in at : j < i}) = k - 1
    IN [k \in 1..(n + 1) |-> SubSeq(text, occurrence(k - 1) + Len(sep), occurrence(k) - 1)]

\* the fallback category: the last /section/ of the url, without what
\* follows '?'; variant: the url is not cut at '?'
lastSlashSection_KeepsQuery(url) ==
    LET slashSections == split(url, <<"/">>)
    IN slashSections[Len(slashSections)]

lastSlashSection(url) ==
    LET baseUrl == split(url, <<"?">>)[1]
        slashSections == split(baseUrl, <<"/">>)
    IN slashSections[Len(slashSections)]

\* the body of the forEach over the sections of the line
visitSection(section, wholeLine, categorisedUrl) ==
    IF includes(section, <<Site>>)
    THEN LET withScheme == IF ~startsWithHttp(section)
                           THEN <<"https:", "/", "/">> \o section
                           ELSE section
             stripped == IF includes(withScheme, <<"?">>)
                         THEN SubSeq(wholeLine, 1, indexOf(wholeLine, <<"?">>) - 1)
                         ELSE withScheme
         IN [categorisedUrl EXCEPT !.url = stripped \o FixedQuery]
    ELSE IF startsWith(section, <<"categories=">>)
    THEN LET splitCategories ==
                 IF includes(section, <<",", " ">>)
                 THEN split(removeFirst(section, <<"categories=">>), <<",", " ">>)
                 ELSE <<removeFirst(section, <<"categories=">>)>>
         IN [categorisedUrl EXCEPT !.categories = splitCategories]
    ELSE categorisedUrl

RECURSIVE forEachSection(_, _, _)
forEachSection(sections, wholeLine, categorisedUrl) ==
    IF sections = <<>> THEN categorisedUrl
    ELSE forEachSection(Tail(sections), wholeLine,
                        visitSection(Head(sections), wholeLine, categorisedUrl))

\* the result is a record with a defined flag: undefined is returned for a
\* line without the site
parseAndCategoriseURL(wholeLine) ==
    IF ~includes(wholeLine, <<Site>>)
    THEN [defined |-> FALSE, url |-> <<>>, categories |-> <<>>]
    ELSE LET categorisedUrl ==
                 forEachSection(split(wholeLine, <<" ">>), wholeLine,
                                [defined |-> TRUE, url |-> <<>>, categories |-> <<>>])
         IN IF Len(categorisedUrl.categories) = 0
            THEN [categorisedUrl EXCEPT !.categories = <<lastSlashSection(categorisedUrl.url)>>]
            ELSE categorisedUrl

\* lines of urls.txt: a url with or without scheme, with or without "www.",
\* with a path of one to three sections, with or without a query string,
\* followed or not by a categories= token that declares one category or
\* two; and lines of other sites
Schemes == {<<>>, <<"https:", "/", "/">>, <<"http:", "/", "/">>}

Hosts == {<<Site>>, <<"www.", Site>>}

Paths == {<<"/", "shop">>, <<"/", "shop", "/", "tubs">>,
          <<"/", "shop", "/", "frozen", "/", "tubs">>}

Queries == {<<>>, <<"?", "page=2">>}

CategoryTokens == {<<>>, <<" ", "categories=", "ice-cream">>,
                   <<" ", "categories=", "ice-cream", ",", " ", "frozen">>}

Lines ==
    {scheme \o host \o path \o query \o token :
        scheme \in Schemes, host \in Hosts, path \in Paths, query \in Queries,
        token \in CategoryTokens}
    \cup {<<"https:", "/", "/", "paknsave.co.nz", "/", "shop">>, <<>>}

InitParse ==
    /\ InitStore
    /\ InitLoop
    /\ backend = "mysql"
    /\ dryRunMode = FALSE
    /\ numTargets = 0
    /\ line \in Lines
    /\ parsed = <<>>
    /\ NoTasks

\* rawLinesFromFile.map: the line is parsed
ParseLine ==
    /\ parsed = <<>>
    /\ parsed' = <<parseAndCategoriseURL(line)>>
    /\ UNCHANGED <<store, now, ops, last, backend, loopVars, line, taskVars>>

NextParse == ParseLine

SpecParse == InitParse /\ [][NextParse]_vars

\* ------------------------------------------------------------------------
\* One page, task by task (index.ts lines 112-160 with upsertProductToMySQL)
\*
\* productEntries.map starts one async task per listing; each task runs to
\* its first await at once (the product is built and validated and the
\* SELECT is issued) and then continues whenever the call it awaits
\* returns, in any order relative to the other tasks.  Between two awaits a
\* task runs without interruption.
\* ------------------------------------------------------------------------
\* the most listings the page shows
MaxTasks == 2

\* the listings of the page: the well-formed ones and one that validation discards
TaskListings ==
    {Listing("11", "Milk", 405), Listing("11", "Milk", 415), Listing("22", "Milk", 405),
     Listing("11", "Tea", 405)}

\* rows already in the table when the page is scraped: one with a category
\* outside the valid list, one with a valid category
SeedRow(id) ==
    insertRow(playwrightElementToProduct(id, "Milk", 405,
                  IF id = "11" THEN Tags(<<"tubs">>) ELSE Tags(<<"fresh">>), 0))

SeedStores == {[id \in have |-> SeedRow(id)] : have \in {{}, {"11"}, Ids}}

\* the product a task builds from its listing
TaskProduct(listing) ==
    playwrightElementToProduct(listing.id, listing.name, listing.price,
                               TargetCategories(1), now)

\* a task after its synchronous start: awaiting its SELECT, or already
\* over when the product is undefined
NewTask(listing) ==
    LET task == [product |-> TaskProduct(listing), pc |-> "select", found |-> <<>>,
                 response |-> "", io |-> ""]
    IN IF upsertsProduct(dryRunMode, validateProduct(task.product)) THEN task
       ELSE [task EXCEPT !.pc = "done"]

\* the table after a statement of one task has written a row; variant: the
\* statement writes the table back as it was when the tasks were created,
\* with the row changed
writeBack_Stale(current, seen, id, row) == WithRow(seen, id, row)

writeBack(current, seen, id, row) == WithRow(current, id, row)

\* await Promise.all(promises) resolves; variant: the first task to end resolves it
allTasksSettled_Race(ts) == \E i \in DOMAIN ts : ts[i].pc = "done"

allTasksSettled(ts) == \A i \in DOMAIN ts : ts[i].pc = "done"

InitTasks ==
    /\ store \in SeedStores
    /\ store0 = store
    /\ now = 0
    /\ ops = 0
    /\ last = [kind |-> "none", backend |-> "none", scraped |-> NoScrape, before |-> <<>>,
               response |-> "Failed", io |-> "ok", repeated |-> FALSE]
    /\ InitLoop
    /\ backend = "mysql"
    /\ dryRunMode = FALSE
    /\ numTargets = 2
    /\ NoLine
    /\ tasks = <<>>
    /\ summary = <<>>

\* the page has loaded: the counters are zeroed and the listings are mapped
\* to tasks
StartTasks ==
    /\ phase = "ready"
    /\ \E n \in 1..MaxTasks : \E listings \in [1..n -> TaskListings] :
          tasks' = [i \in 1..n |-> NewTask(listings[i])]
    /\ counts' = NoCounts
    /\ pageLoadValid' = TRUE
    /\ phase' = "listings"
    /\ UNCHANGED <<store, now, ops, last, backend, dryRunMode, pagesScrapedCount, pending,
                   rejectedBy, browserOpen, numTargets, visits, logged, parseVars, store0,
                   summary>>

\* the SELECT of a task returns its rows, and the task issues its UPDATE or
\* INSERT; or the SELECT fails, the upsert returns Failed, the task counts
\* it and starts the image upload
TaskSelect ==
    /\ \E i \in DOMAIN tasks :
          /\ tasks[i].pc = "select"
          /\ \/ /\ tasks' = [tasks EXCEPT ![i].pc = "write",
                                          ![i].found = Found(store, tasks[i].product.id)]
                /\ UNCHANGED counts
             \/ /\ tasks' = [tasks EXCEPT ![i].pc = "image", ![i].response = "Failed",
                                          ![i].io = "selectFails"]
                /\ counts' = Counted(counts, "Failed")
    /\ UNCHANGED <<store, now, ops, last, backend, dryRunMode, phase, pagesScrapedCount,
                   pageLoadValid, pending, rejectedBy, browserOpen, numTargets, visits,
                   logged, parseVars, store0, summary>>

\* the outcome of the second statement of an upsert, given the rows its
\* SELECT returned and the table as it is now: the response, and the row
\* written if any.  An INSERT of an id that has a row by now violates the
\* primary key.
secondStatement(task, st, fails) ==
    LET id == task.product.id
        product == task.product
        failed == [response |-> "Failed", wrote |-> FALSE, row |-> SeedRow(id)]
    IN IF task.found = <<>>
       THEN IF fails \/ id \in DOMAIN st THEN failed
            ELSE [response |-> "NewProduct", wrote |-> TRUE, row |-> insertRow(product)]
       ELSE LET response == buildUpdatedProduct(product, rowAsProduct(id, task.found[1]))
            IN IF response.threw \/ fails THEN failed
               ELSE [response |-> response.upsertType, wrote |-> TRUE,
                     row |-> updateRow(st[id], response.product)]

\* the UPDATE or INSERT of a task returns (or fails), the upsert returns its
\* response, the task counts it and starts the image upload
TaskWrite ==
    /\ \E i \in DOMAIN tasks, fails \in BOOLEAN :
          /\ tasks[i].pc = "write"
          /\ LET outcome == secondStatement(tasks[i], store, fails)
             IN /\ store' = IF outcome.wrote
                            THEN writeBack(store, store0, tasks[i].product.id, outcome.row)
                            ELSE store
                /\ tasks' = [tasks EXCEPT ![i].pc = "image",
                                          ![i].response = outcome.response,
                                          ![i].io = IF fails THEN "writeFails" ELSE "ok"]
                /\ counts' = Counted(counts, outcome.response)
    /\ UNCHANGED <<now, ops, last, backend, dryRunMode, phase, pagesScrapedCount,
                   pageLoadValid, pending, rejectedBy, browserOpen, numTargets, visits,
                   logged, parseVars, store0, summary>>

\* the image upload of a task returns and the task is over, or it throws and
\* the task's promise rejects, which rejects Promise.all at once while the
\* other tasks go on
TaskImage ==
    /\ \E i \in DOMAIN tasks :
          /\ tasks[i].pc = "image"
          /\ \/ /\ tasks' = [tasks EXCEPT ![i].pc = "done"]
                /\ UNCHANGED <<phase, rejectedBy>>
             \/ /\ tasks' = [tasks EXCEPT ![i].pc = "rejected"]
                /\ phase' = "rejected"
                /\ rejectedBy' = "image"
    /\ UNCHANGED <<store, now, ops, last, backend, dryRunMode, pagesScrapedCount,
                   pageLoadValid, pending, counts, browserOpen, numTargets, visits, logged,
                   parseVars, store0, summary>>

\* Promise.all resolves, the page summary is logged and the delay timer is started
LogSummary ==
    /\ phase = "listings"
    /\ allTasksSettled(tasks)
    /\ summary' = <<counts>>
    /\ phase' = "delaying"
    /\ pagesScrapedCount' = pagesScrapedCount + 1
    /\ UNCHANGED <<store, now, ops, last, backend, dryRunMode, pageLoadValid, pending,
                   counts, rejectedBy, browserOpen, numTargets, visits, logged, parseVars,
                   tasks, store0>>

\* the delay timer fires and the next link navigates to the next page
NavigateNext ==
    /\ phase = "delaying"
    /\ now' = now + DelayTicks
    /\ phase' = "navigated"
    /\ UNCHANGED <<store, ops, last, backend, dryRunMode, pagesScrapedCount, pageLoadValid,
                   pending, counts, rejectedBy, browserOpen, numTargets, visits, logged,
                   parseVars, taskVars>>

NextTasks == StartTasks \/ TaskSelect \/ TaskWrite \/ TaskImage \/ LogSummary \/ NavigateNext

SpecTasks == InitTasks /\ [][NextTasks]_vars

\* ------------------------------------------------------------------------
\* Vocabulary of the properties
\* ------------------------------------------------------------------------
IsPrefix(s, t) == Len(s) <= Len(t) /\ \A i \in 1..Len(s) : s[i] = t[i]

LastOf(h) == h[Len(h)]

\* the latest step was an upsert through the relational backend
ViaMySQL == last.kind = "upsert" /\ last.backend = "mysql"

ViaFrappe == last.kind = "upsert" /\ last.backend = "frappe"

\* ... that found a row for the id
OnExisting == ViaMySQL /\ last.before # <<>>

Before == last.before[1]

Scraped == last.scraped

\* the row of the upserted id after the upsert
After == store[Scraped.id]

\* |stored.currentPrice - scraped.currentPrice| in cents
PriceDelta == Abs(Before.currentPrice - Scraped.currentPrice)

\* the stored lastUpdated and the scraped lastUpdated fall on the same calendar day
SameDay == Before.lastUpdated = Day(Scraped.lastUpdated.t)

\* ------------------------------------------------------------------------
\* C1: a price change of more than 0.05 observed on the calendar day of the
\* stored lastUpdated is never reported as PriceChanged (the day gate).
\* The relational backend hands lastUpdated back as a Date, whose toString()
\* starts "Wed Nov 04", never equal to "2026-11-04": the gate never closes.
\* ------------------------------------------------------------------------
C1_SameDayNeverPriceChanged ==
    (OnExisting /\ PriceDelta > 5 /\ SameDay) => last.response # "PriceChanged"

\* ------------------------------------------------------------------------
\* C2: every persisted product's currentPrice is the price of the last
\* element of its priceHistory.  InfoChanged writes the scraped price and
\* keeps the stored history.
\* ------------------------------------------------------------------------
C2_CurrentPriceIsLastHistoryPrice ==
    \A id \in DOMAIN store : store[id].currentPrice = LastOf(store[id].priceHistory).price

\* ------------------------------------------------------------------------
\* C3: every persisted product has lastChecked >= lastUpdated.  The UPDATE
\* statement never assigns lastChecked, so a later PriceChanged moves
\* lastUpdated past it.
\* ------------------------------------------------------------------------
C3_LastCheckedNotBeforeLastUpdated ==
    \A id \in DOMAIN store : store[id].lastChecked >= store[id].lastUpdated

\* ------------------------------------------------------------------------
\* C4: through the relational backend the persisted priceHistory is
\* append-only: never empty once the product has a row, the row is never
\* removed, and each upsert leaves the previous history as a prefix of the
\* new one.
\* ------------------------------------------------------------------------
C4_HistoryAppendOnly ==
    /\ \A id \in DOMAIN store : Len(store[id].priceHistory) >= 1
    /\ OnExisting => /\ Scraped.id \in DOMAIN store
                     /\ IsPrefix(Before.priceHistory, After.priceHistory)

C4_Witness ==
    /\ OnExisting
    /\ last.response = "PriceChanged"
    /\ Len(Before.priceHistory) >= 1
    /\ Len(After.priceHistory) = Len(Before.priceHistory) + 1

\* ------------------------------------------------------------------------
\* C5: the Frappe backend meets the upsert contract of the relational one:
\* every upsert returns one of the five decisions, and when a record for the
\* id exists the persisted history is the stored one, kept or extended, not
\* the scraped single-entry history written over it.  upsertProductToFrappe
\* never reconciles: it PUTs the scraped product and returns "Updated".
\* (Stated for upserts whose requests are all answered.)
\* ------------------------------------------------------------------------
C5_FrappeMeetsContract ==
    (ViaFrappe /\ last.io = "ok") =>
        /\ last.response \in UpsertResponse
        /\ (last.before # <<>> /\ last.response # "Failed") =>
               IsPrefix(Before.priceHistory, After.priceHistory)

\* ------------------------------------------------------------------------
\* C6: a storage failure while upserting one listing (read error, write
\* error, error while creating a record that was not found) becomes the
\* Failed response of that listing and never rejects the promise chain, so
\* the remaining listings and pages are still processed.  In the Frappe
\* backend the POST that creates a missing record sits inside the catch
\* block: its error escapes the function, Promise.all rejects and every
\* later link of the chain is skipped.
\* ------------------------------------------------------------------------
C6_UpsertFailureIsolated ==
    /\ ~(phase = "rejected" /\ rejectedBy = "upsert")
    /\ last.kind = "upsert" => last.response # "rejected"

\* ------------------------------------------------------------------------
\* C7 as stated: an upsert repeated at once with the identical scraped
\* input, against the record the first one persisted, returns
\* AlreadyUpToDate.  (Storage calls of the second upsert succeeding.)
\* ------------------------------------------------------------------------
C7_RepeatIsAlreadyUpToDate ==
    (ViaMySQL /\ last.repeated /\ last.io = "ok") => last.response = "AlreadyUpToDate"

\* C7 amended: the repeated upsert returns AlreadyUpToDate when every
\* category tag of the record the first upsert persisted is valid, and
\* InfoChanged otherwise; it is never NewProduct or PriceChanged.
C7_RepeatIsStable ==
    (ViaMySQL /\ last.repeated /\ last.io = "ok") =>
        /\ last.before # <<>>
        /\ last.response = IF categoriesAllValid(Before.category)
                           THEN "AlreadyUpToDate" ELSE "InfoChanged"

C7_Witness ==
    /\ ViaMySQL /\ last.repeated /\ last.io = "ok"
    /\ last.response = "AlreadyUpToDate"
    /\ last.before # <<>>

\* ------------------------------------------------------------------------
\* C8 as stated: a price that differs by more than 0.05 from the stored one,
\* observed on another calendar day, gives PriceChanged; the persisted
\* history is the stored one plus the scraped {date, price}, currentPrice is
\* the scraped price and lastUpdated is the scrape time.
\* ------------------------------------------------------------------------
QualifyingChange == OnExisting /\ last.io = "ok" /\ PriceDelta > 5 /\ ~SameDay

HistoryExtended ==
    /\ Len(After.priceHistory) = Len(Before.priceHistory) + 1
    /\ LastOf(After.priceHistory) = JsonHistory(Scraped.priceHistory)[1]
    /\ LastOf(After.priceHistory).price = Scraped.currentPrice
    /\ LastOf(After.priceHistory).date.t = Scraped.lastUpdated.t

C8_PriceChangedAtScrapeTime ==
    QualifyingChange =>
        /\ last.response = "PriceChanged"
        /\ HistoryExtended
        /\ After.currentPrice = Scraped.currentPrice
        /\ DateFromColumn(After.lastUpdated) = Scraped.lastUpdated

\* C8 amended: ... and lastUpdated is the calendar day of the scrape time
\* (the column is a DATE; the time of day is dropped).
C8_PriceChangedOnScrapeDay ==
    QualifyingChange =>
        /\ last.response = "PriceChanged"
        /\ HistoryExtended
        /\ After.currentPrice = Scraped.currentPrice
        /\ After.lastUpdated = Day(Scraped.lastUpdated.t)

C8_Witness ==
    /\ QualifyingChange
    /\ last.response = "PriceChanged"
    /\ Len(After.priceHistory) = 2
    /\ Scraped.lastUpdated.t % TicksPerDay # 0

\* ------------------------------------------------------------------------
\* C9: a scraped product whose id has no row is inserted: the response is
\* NewProduct and the persisted priceHistory has exactly one entry, priced
\* at the scraped currentPrice.  (Storage calls succeeding.)
\* ------------------------------------------------------------------------
C9_NewProductSingleEntry ==
    (ViaMySQL /\ last.before = <<>> /\ last.io = "ok") =>
        /\ last.response = "NewProduct"
        /\ Scraped.id \in DOMAIN store
        /\ Len(After.priceHistory) = 1
        /\ After.priceHistory[1].price = Scraped.currentPrice
        /\ After.currentPrice = Scraped.currentPrice

C9_Witness ==
    /\ ViaMySQL /\ last.before = <<>> /\ last.io = "ok"
    /\ last.response = "NewProduct"
    /\ Cardinality(DOMAIN store) = 2

\* ------------------------------------------------------------------------
\* C10: a price within 0.05 of the stored one is never PriceChanged, on any
\* day, and leaves the persisted priceHistory as it was.  The code compares
\* doubles: 4.15 - 4.10 is 0.05000000000000071 > 0.05.
\* ------------------------------------------------------------------------
C10_SmallDeltaNeverPriceChanged ==
    (OnExisting /\ PriceDelta <= 5) =>
        /\ last.response # "PriceChanged"
        /\ After.priceHistory = Before.priceHistory

\* ------------------------------------------------------------------------
\* Vocabulary of the scrape-loop properties
\* ------------------------------------------------------------------------
\* the k-th visit is over and the next one started a full delay later
DelayedAfter(k) ==
    /\ visits[k].finishedAt # NotYet
    /\ visits[k + 1].startedAt >= visits[k].finishedAt + DelayTicks

\* the run has not been aborted by a rejection of the promise chain
NotAborted == rejectedBy = "none" /\ phase # "rejected"

\* ------------------------------------------------------------------------
\* C11: when the page of a target does not load (goto or the wait for the
\* listing container times out), no upsert is invoked for that target, the
\* run is not aborted by it, and the next target is navigated to only after
\* the delay between pages has elapsed.
\* ------------------------------------------------------------------------
C11_TimeoutSkipsTarget ==
    \A k \in DOMAIN visits :
        ~visits[k].loaded =>
            /\ visits[k].upserts = 0
            /\ (k = Len(visits)) => NotAborted
            /\ (k < Len(visits)) => DelayedAfter(k)

\* the first target timed out and the second one was scraped and upserted
C11_Witness ==
    /\ Len(visits) = 2
    /\ ~visits[1].loaded
    /\ visits[2].loaded
    /\ visits[2].upserts >= 1

\* ------------------------------------------------------------------------
\* C12: targets are visited one at a time in list order: the k-th navigation
\* is to the k-th target (none twice, none passed over), and it happens only
\* after the processing of the previous target has finished and a full delay
\* has elapsed since.
\* ------------------------------------------------------------------------
C12_SequentialInOrder ==
    /\ Len(visits) <= numTargets
    /\ \A k \in DOMAIN visits :
          /\ visits[k].target = k
          /\ (k < Len(visits)) => DelayedAfter(k)
          /\ (visits[k].finishedAt = NotYet) => (k = Len(visits))

\* every target of a two-target run has been visited, with upserts on both
C12_Witness ==
    /\ numTargets = 2
    /\ Len(visits) = 2
    /\ visits[1].upserts >= 1
    /\ visits[2].upserts >= 1
    /\ visits[2].finishedAt # NotYet

\* ------------------------------------------------------------------------
\* C13: in dry-run mode no upsert is ever invoked, whatever the targets and
\* listings: the store is never read or written, and validated products
\* only produce logged rows; without dry-run mode no row is logged.
\* ------------------------------------------------------------------------
C13_DryRunNeverUpserts ==
    /\ dryRunMode =>
          /\ ops = 0
          /\ store = <<>>
          /\ last.kind = "none"
          /\ \A k \in DOMAIN visits : visits[k].upserts = 0
    /\ ~dryRunMode => logged = 0

\* a dry run went through all its targets and logged validated products
C13_Witness ==
    /\ dryRunMode
    /\ phase = "completed"
    /\ numTargets = 2
    /\ logged >= 2

\* ------------------------------------------------------------------------
\* C14: the browser is closed once, by the step that ends the processing of
\* the final target, and nothing happens after that: no navigation, no
\* listing task, no second close.
\* ------------------------------------------------------------------------
C14_BrowserReleasedOnceAtEnd ==
    [][ /\ (browserOpen' # browserOpen) =>
              /\ browserOpen
              /\ phase = "listings"
              /\ pending = 0
              /\ Len(visits) = numTargets
              /\ visits[numTargets].target = numTargets
              /\ phase' = "completed"
        /\ ~browserOpen => UNCHANGED vars
      ]_vars

\* the browser was closed after a two-target run that upserted products
C14_Witness ==
    /\ ~browserOpen
    /\ numTargets = 2
    /\ Len(visits) = 2
    /\ visits[2].finishedAt # NotYet
    /\ ops >= 1

\* ------------------------------------------------------------------------
\* C15: a candidate reaches storage only through validation: the product of
\* every upsert the loop invokes has a name of 4 to 100 characters, an id of
\* 2 to 20 characters and a price above 0 and at most 999.00; a candidate
\* without an id (validation throws) never reaches storage.
\* ------------------------------------------------------------------------
C15_OnlyValidatedReachStorage ==
    last.kind = "upsert" =>
        /\ Scraped.id # Undefined
        /\ Len(Scraped.name) >= 4 /\ Len(Scraped.name) <= 100
        /\ Len(Scraped.id) >= 2 /\ Len(Scraped.id) <= 20
        /\ Scraped.currentPrice # NaN
        /\ Scraped.currentPrice > 0 /\ Scraped.currentPrice <= 99900

\* a validated candidate was upserted, the only upsert of a page that is over
C15_Witness ==
    /\ last.kind = "upsert"
    /\ validateProduct(Scraped)
    /\ ~dryRunMode
    /\ \E k \in DOMAIN visits : visits[k].finishedAt # NotYet /\ visits[k].upserts = 1

\* ------------------------------------------------------------------------
\* Vocabulary of the properties of parseAndCategoriseURL
\* ------------------------------------------------------------------------
\* the line has been parsed and it names the site
ParsedSiteLine == parsed # <<>> /\ includes(line, <<Site>>)

Result == parsed[1]

HasCategoriesToken == includes(line, <<"categories=">>)

\* the categories the line declares: what follows "categories=", a list
\* separated by ", "
DeclaredCategories ==
    split(SubSeq(line, indexOf(line, <<"categories=">>) + 1, Len(line)), <<",", " ">>)

\* the url written on the line: its first word that names the site
UrlOfLine ==
    LET words == split(line, <<" ">>)
    IN words[CHOOSE i \in DOMAIN words :
                /\ includes(words[i], <<Site>>)
                /\ \A j \in 1..(i - 1) : ~includes(words[j], <<Site>>)]

BeforeQuery(text) ==
    IF includes(text, <<"?">>) THEN SubSeq(text, 1, indexOf(text, <<"?">>) - 1) ELSE text

\* what follows the last "/" of the text
LastPathSegment(text) ==
    LET lastSlash == CHOOSE i \in DOMAIN text :
                        text[i] = "/" /\ \A j \in (i + 1)..Len(text) : text[j] # "/"
    IN SubSeq(text, lastSlash + 1, Len(text))

\* ------------------------------------------------------------------------
\* C16: for a line that names the site, the returned url begins with http:
\* or https:, carries no query string but the fixed one at its end, and the
\* returned categories are the ones the categories= token declares, whether
\* or not the url on the line had a scheme or a query string.
\* The query is cut from the line, not from the url that was given its
\* scheme, and the line is split at spaces before ", " is looked for.
\* ------------------------------------------------------------------------
C16_ParseNormalisesUrl ==
    ParsedSiteLine =>
        /\ Result.defined
        /\ startsWithHttp(Result.url)
        /\ Len(Result.url) >= 2
        /\ SubSeq(Result.url, Len(Result.url) - 1, Len(Result.url)) = FixedQuery
        /\ indexOf(Result.url, <<"?">>) = Len(Result.url) - 1
        /\ HasCategoriesToken => Result.categories = DeclaredCategories

C18_LastCheckedPersisted ==
    (OnExisting /\ last.response \in {"PriceChanged", "InfoChanged", "AlreadyUpToDate"}) =>
        After.lastChecked = Day(Scraped.lastChecked.t)

\* ------------------------------------------------------------------------
\* C19: when there is no qualifying price change (no difference above 0.05
\* observed on another day than the stored lastUpdated) and the stored
\* categories are null or hold a tag outside the valid set, the decision is
\* InfoChanged.
\* With null stored categories dbProduct.category.every(...) throws before
\* "=== null" is evaluated; the catch of the upsert turns that into Failed.
\* ------------------------------------------------------------------------
NoQualifyingChange == ~(PriceDelta > 5 /\ ~SameDay)

C19_InvalidCategoriesInfoChanged ==
    (/\ OnExisting
     /\ last.io = "ok"
     /\ NoQualifyingChange
     /\ (Before.category.isNull \/ ~categoriesAllValid(Before.category))) =>
        last.response = "InfoChanged"

\* ------------------------------------------------------------------------
\* C20: for every product id at most one priceHistory entry is recorded per
\* calendar day: no two entries of a persisted history carry dates of the
\* same day, however the scraped price moves between scrapes of one day.
\* The day gate of the reconciliation never closes (C1), so every scrape
\* that differs by more than 0.05 from the stored price appends an entry.
\* ------------------------------------------------------------------------
C20_OneEntryPerDay ==
    \A id \in DOMAIN store :
        \A i, j \in DOMAIN store[id].priceHistory :
            (i < j) => Day(store[id].priceHistory[i].date.t) #
                       Day(store[id].priceHistory[j].date.t)

\* ------------------------------------------------------------------------
\* C25: when the decision is InfoChanged, the persisted record has the
\* scraped categories, and its priceHistory and lastUpdated are exactly
\* those of the record stored before.
\* ------------------------------------------------------------------------
C25_InfoChangedKeepsHistory ==
    (OnExisting /\ last.response = "InfoChanged") =>
        /\ After.category = Scraped.category
        /\ After.priceHistory = Before.priceHistory
        /\ After.lastUpdated = Before.lastUpdated

\* an InfoChanged on a later day, for a record stored with another category
\* list and another price than the scraped ones
C25_Witness ==
    /\ OnExisting
    /\ last.response = "InfoChanged"
    /\ Before.category # Scraped.category
    /\ Before.currentPrice # Scraped.currentPrice
    /\ ~SameDay

\* ------------------------------------------------------------------------
\* C26: when the decision is AlreadyUpToDate, no persisted field other than
\* lastChecked changes: the table after the upsert is the table before it
\* (the UPDATE writes back what the SELECT returned), so repeating the
\* upsert leaves the store unchanged.
\* ------------------------------------------------------------------------
C26_AlreadyUpToDateWritesNothing ==
    [][ (ops' = ops + 1 /\ last'.backend = "mysql" /\ last'.response = "AlreadyUpToDate")
            => store' = store ]_vars

\* an AlreadyUpToDate on a later day with a price 0.05 away from the stored one
C26_Witness ==
    /\ OnExisting
    /\ last.response = "AlreadyUpToDate"
    /\ PriceDelta = 5
    /\ ~SameDay
    /\ After = Before

\* ------------------------------------------------------------------------
\* C27: the price rule is evaluated before the category rule: a price
\* difference above 0.05 observed on another day gives PriceChanged even
\* when the stored categories are invalid (storage calls succeeding), and
\* InfoChanged is returned only when there is no qualifying price change.
\* ------------------------------------------------------------------------
C27_PriceRuleFirst ==
    /\ (QualifyingChange /\ ~categoriesAllValid(Before.category)) =>
           last.response = "PriceChanged"
    /\ (OnExisting /\ last.response = "InfoChanged") => NoQualifyingChange

\* a PriceChanged for a record whose stored categories are invalid
C27_Witness ==
    /\ QualifyingChange
    /\ ~categoriesAllValid(Before.category)
    /\ last.response = "PriceChanged"

\* ------------------------------------------------------------------------
\* C21: a failure of the image upload of one product never stops the run:
\* the promise chain is never rejected because of it, so the remaining
\* listings and pages are processed.
\* uploadImageRestAPI awaits fetch without a try/catch (and throws when
\* AZURE_FUNC_URL is not a url); the listing task awaits it without a
\* try/catch either, so Promise.all and the chain link reject.
\* ------------------------------------------------------------------------
C21_ImageFailureIsolated == ~(phase = "rejected" /\ rejectedBy = "image")

\* ------------------------------------------------------------------------
\* C22: for every finite target list, the empty one included, and whatever
\* pages load or time out, the run reaches Completed with the browser
\* closed.  Stated on finite runs: a state from which the run can take no
\* further step is a Completed state.
\* With no target the forEach creates no link, and browser.close() is only
\* called from the link of the last target.
\* ------------------------------------------------------------------------
C22_EndsCompleted == (~ENABLED NextRun) => (phase = "completed" /\ ~browserOpen)

\* ------------------------------------------------------------------------
\* Vocabulary of the properties of one page, task by task
\* ------------------------------------------------------------------------
\* the listing of task i gave a product that passed validation
Validated(i) == validateProduct(tasks[i].product)

ValidatedTasks == {i \in DOMAIN tasks : Validated(i)}

\* the validated listings whose upsert returned decision d
ReturnedUnder(d) == {i \in ValidatedTasks : tasks[i].response = d}

\* the upsert of the task has returned
Returned(task) == task.response # ""

SummaryLogged == summary # <<>>

AllReturned == \A i \in ValidatedTasks : Returned(tasks[i])

DistinctIds ==
    \A i, j \in DOMAIN tasks : i # j => tasks[i].product.id # tasks[j].product.id

\* the upserts of the validated tasks 1..k run one after another on the
\* table as it was when the page was loaded, each with the outcome of the
\* statements its task met
RECURSIVE SequentialStore(_)
SequentialStore(k) ==
    IF k = 0 THEN store0
    ELSE IF Validated(k)
    THEN upsertProductToMySQL(tasks[k].product, SequentialStore(k - 1), tasks[k].io).store
    ELSE SequentialStore(k - 1)

SequentialResponse(k) ==
    upsertProductToMySQL(tasks[k].product, SequentialStore(k - 1), tasks[k].io).response

\* C23: in a non-dry run on the relational backend, whatever the order in
\* which the tasks of the page continue, the logged summary counts every
\* validated listing once, under the decision its upsert returned: each
\* counter equals the number of validated listings whose upsert returned
\* that decision, and the five counters add up to the number of validated
\* listings.
C23_CountersLoseNothing ==
    SummaryLogged =>
        /\ \A d \in UpsertResponse : summary[1][d] = Cardinality(ReturnedUnder(d))
        /\ summary[1].NewProduct + summary[1].PriceChanged + summary[1].InfoChanged
             + summary[1].AlreadyUpToDate + summary[1].Failed
           = Cardinality(ValidatedTasks)

C23_Witness ==
    /\ SummaryLogged
    /\ Cardinality(ValidatedTasks) = 2
    /\ \E d \in UpsertResponse : summary[1][d] = 2

\* C24: when the summary of a page has been logged, while the delay runs
\* and when the next page is navigated to, every listing task of the page
\* is over, each validated one with the decision its upsert returned.
C24_TasksOverBeforeSummary ==
    (SummaryLogged \/ phase \in {"delaying", "navigated"}) =>
        \A i \in DOMAIN tasks :
            /\ tasks[i].pc = "done"
            /\ Validated(i) => tasks[i].response \in UpsertResponse

C24_Witness ==
    /\ phase = "navigated"
    /\ SummaryLogged
    /\ Len(tasks) >= 2
    /\ \E i, j \in ValidatedTasks :
          tasks[i].response = "Failed" /\ tasks[j].response \notin {"", "Failed"}

\* C28: when the listings of a page have pairwise different ids and the
\* upserts of all of them have returned, whatever the order in which their
\* statements were served, the table and every returned decision are those
\* of the same upserts run one after another.
C28_DifferentIdsAsSequential ==
    (tasks # <<>> /\ DistinctIds /\ AllReturned) =>
        /\ store = SequentialStore(Len(tasks))
        /\ \A i \in ValidatedTasks : tasks[i].response = SequentialResponse(i)

C28_Witness ==
    /\ Len(tasks) = 2
    /\ DistinctIds
    /\ \A i \in DOMAIN tasks : tasks[i].response \in {"NewProduct", "PriceChanged", "InfoChanged"}
    /\ \E i \in DOMAIN tasks : tasks[i].found # <<>>
    /\ \E i \in DOMAIN tasks : tasks[i].found = <<>>
    /\ store = SequentialStore(Len(tasks))
    /\ store # store0

====
